---------------------------- MODULE Spec2Model ----------------------------
(***************************************************************************)
(* State-machine model of native/extypst_nif/src/lib.rs: the SystemWorld   *)
(* handed to the typst compiler (font discovery, lazy font decoding, the   *)
(* source registry, the path-resolution and identity-slot caches and the   *)
(* compile lifecycle), for the linux build (cfg(all(unix, not(macos)))).   *)
(*                                                                         *)
(* Paths are sequences of components and a component is its byte string,   *)
(* so that file-name ordering, extension matching and normalisation are    *)
(* computed the way the code computes them.                                *)
(***************************************************************************)
EXTENDS Integers, Sequences, FiniteSets, TLC

(* ------------------------------ bounds -------------------------------- *)
MaxUnits == 3
MaxComponents == 4

(* ------------------------- path components ---------------------------- *)
RootDir == <<47>>
CurDir == <<46>>
ParentDir == <<46, 46>>

n_usr == <<117, 115, 114>>
n_local == <<108, 111, 99, 97, 108>>
n_share == <<115, 104, 97, 114, 101>>
n_fonts == <<102, 111, 110, 116, 115>>
n_home == <<104>>
n_x == <<120>>
n_sub == <<115, 117, 98>>
n_nope == <<110, 111, 112, 101>>
n_a_TTC == <<97, 46, 84, 84, 67>>
n_c_otf == <<99, 46, 111, 116, 102>>
n_d_Ttf == <<100, 46, 84, 116, 102>>
n_z_otc == <<122, 46, 111, 116, 99>>
n_f_ttf == <<102, 46, 116, 116, 102>>
n_n_ttf == <<110, 46, 116, 116, 102>>
n_e_txt == <<101, 46, 116, 120, 116>>
n_g_otf == <<103, 46, 111, 116, 102>>
n_y == <<121>>
n_k == <<107>>
n_B_ttf == <<66, 46, 116, 116, 102>>
n_a_otf == <<97, 46, 111, 116, 102>>
n_c == <<99>>
n_a_ttf == <<97, 46, 116, 116, 102>>
n_e_ttc == <<101, 46, 116, 116, 99>>

Ext_ttf == <<116, 116, 102>>
Ext_otf == <<111, 116, 102>>
Ext_TTF == <<84, 84, 70>>
Ext_OTF == <<79, 84, 70>>
Ext_ttc == <<116, 116, 99>>
Ext_otc == <<111, 116, 99>>
Ext_TTC == <<84, 84, 67>>
Ext_OTC == <<79, 84, 67>>

(* The extensions search_dir accepts, spelled exactly as in the match.    *)
FontExtensions ==
    {Ext_ttf, Ext_otf, Ext_TTF, Ext_OTF, Ext_ttc, Ext_otc, Ext_TTC, Ext_OTC}

(* --------------------------- the filesystem --------------------------- *)
(* A face of a font file: the family FontInfo reads from it, or "none"    *)
(* when the face does not parse.                                          *)
Face(fam) == [info |-> fam]
BadFace == [info |-> "none"]

File(faces) == [kind |-> "file", open |-> TRUE, names |-> {}, faces |-> faces]
LockedFile(faces) == [kind |-> "file", open |-> FALSE, names |-> {}, faces |-> faces]
Dir(names) == [kind |-> "dir", open |-> TRUE, names |-> names, faces |-> <<>>]
LockedDir(names) == [kind |-> "dir", open |-> FALSE, names |-> names, faces |-> <<>>]

SysDir1 == <<RootDir, n_usr, n_share, n_fonts>>
SysDir2 == <<RootDir, n_usr, n_local, n_share, n_fonts>>
HomeFontDir == <<RootDir, n_home, n_fonts>>
XDir == <<RootDir, n_x>>
NopePath == <<RootDir, n_nope>>
YDir == <<RootDir, n_y>>
KDir == <<RootDir, n_k>>

(* The font files on disk while the catalog is built.                     *)
Tree ==
    (SysDir1 :> Dir({n_a_TTC, n_sub, n_d_Ttf}))
    @@ (Append(SysDir1, n_a_TTC) :> File(<<Face("A0"), BadFace, Face("A2")>>))
    @@ (Append(SysDir1, n_sub) :> Dir({n_c_otf}))
    @@ (Append(Append(SysDir1, n_sub), n_c_otf) :> File(<<BadFace>>))
    @@ (Append(SysDir1, n_d_Ttf) :> File(<<Face("D")>>))
    @@ (HomeFontDir :> Dir({n_z_otc}))
    @@ (Append(HomeFontDir, n_z_otc) :> File(<<Face("Z0")>>))
    @@ (XDir :> Dir({n_f_ttf, n_n_ttf, n_e_txt, n_g_otf}))
    @@ (Append(XDir, n_f_ttf) :> File(<<Face("F")>>))
    @@ (Append(XDir, n_n_ttf) :> LockedFile(<<Face("N")>>))
    @@ (Append(XDir, n_e_txt) :> File(<<Face("E")>>))
    @@ (Append(XDir, n_g_otf) :> Dir({}))
    @@ (YDir :> Dir({n_B_ttf, n_a_otf, n_c, n_e_ttc}))
    @@ (Append(YDir, n_B_ttf) :> File(<<Face("YB")>>))
    @@ (Append(YDir, n_a_otf) :> File(<<Face("Ya")>>))
    @@ (Append(YDir, n_c) :> Dir({n_a_ttf}))
    @@ (Append(Append(YDir, n_c), n_a_ttf) :> File(<<Face("Yca")>>))
    @@ (Append(YDir, n_e_ttc) :> File(<<Face("Ye0"), Face("Ye1")>>))
    @@ (KDir :> LockedDir({n_f_ttf}))
    @@ (Append(KDir, n_f_ttf) :> File(<<Face("K")>>))

Exists(p) == p \in DOMAIN Tree

(* ------------------------- sequence helpers --------------------------- *)
Last(s) == s[Len(s)]
Front(s) == SubSeq(s, 1, Len(s) - 1)

RECURSIVE LexLess(_, _)
(* Ord for OsStr: byte-wise lexicographic order.                          *)
LexLess(a, b) ==
    IF b = <<>> THEN FALSE
    ELSE IF a = <<>> THEN TRUE
    ELSE IF a[1] < b[1] THEN TRUE
    ELSE IF a[1] > b[1] THEN FALSE
    ELSE LexLess(Tail(a), Tail(b))

RECURSIVE SortNames_descending(_)
(* A walk that visits the names of a directory in descending order.       *)
SortNames_descending(S) ==
    IF S = {} THEN <<>>
    ELSE LET m == CHOOSE x \in S : \A y \in S \ {x} : LexLess(y, x)
         IN <<m>> \o SortNames_descending(S \ {m})

RECURSIVE SortNames(_)
(* The file names of a directory in the order of sort_by.                 *)
SortNames(S) ==
    IF S = {} THEN <<>>
    ELSE LET m == CHOOSE x \in S : \A y \in S \ {x} : LexLess(x, y)
         IN <<m>> \o SortNames(S \ {m})

RECURSIVE Flatten(_)
Flatten(ss) == IF ss = <<>> THEN <<>> ELSE ss[1] \o Flatten(Tail(ss))


(* ------------------------------ options ------------------------------- *)
None == [some |-> FALSE, val |-> <<>>]
Some(v) == [some |-> TRUE, val |-> v]

(* Path::extension: the part of the last component after its last dot;    *)
(* none for "..", for a name without a dot and for a name whose only dot   *)
(* is its first byte.                                                      *)
Extension(p) ==
    IF p = <<>> \/ Last(p) \in {RootDir, CurDir, ParentDir} THEN None
    ELSE LET name == Last(p)
             dots == {i \in 1..Len(name) : name[i] = 46}
         IN IF dots = {} THEN None
            ELSE LET d == CHOOSE i \in dots : \A j \in dots : j <= i
                 IN IF d = 1 THEN None
                    ELSE Some(SubSeq(name, d + 1, Len(name)))

(* --------------------------- font discovery --------------------------- *)
EmptyCell == [set |-> FALSE, some |-> FALSE, path |-> <<>>, index |-> 0, family |-> ""]
NoFont == [set |-> TRUE, some |-> FALSE, path |-> <<>>, index |-> 0, family |-> ""]
DecodedFont(p, i, fam) ==
    [set |-> TRUE, some |-> TRUE, path |-> p, index |-> i, family |-> fam]

FontSlot(p, i) == [path |-> p, index |-> i, font |-> EmptyCell]

(* FontSearcher::new *)
NewSearcher == [book |-> <<>>, fonts |-> <<>>]

(* FontInfo::iter: the metadata of the faces of the data that parse, in   *)
(* face order (a filter_map over the face indexes).                       *)
FontInfoIter(faces) ==
    LET good == SelectSeq(faces, LAMBDA f : f.info # "none")
    IN [i \in 1..Len(good) |-> good[i].info]

(* A File::open that succeeds on every path that exists.                  *)
FileOpens_unlocked(p) == Exists(p)

(* File::open and Mmap::map on the tree: a missing or locked path does    *)
(* not open, a directory opens and does not map.                          *)
FileOpens(p) == Exists(p) /\ Tree[p].open
MmapOk(p) == Tree[p].kind = "file"

(* A loop body that gives every descriptor the collection index 0.        *)
PushRecord_index_zero(s, path, i, info) ==
    [book |-> Append(s.book, info), fonts |-> Append(s.fonts, FontSlot(path, 0))]

(* One iteration of the loop of search_file: book.push, fonts.push.       *)
PushRecord(s, path, i, info) ==
    [book |-> Append(s.book, info), fonts |-> Append(s.fonts, FontSlot(path, i))]

RECURSIVE PushRecords(_, _, _, _)
PushRecords(s, path, infos, i) ==
    IF i >= Len(infos) THEN s
    ELSE PushRecords(PushRecord(s, path, i, infos[i + 1]), path, infos, i + 1)

search_file(s, path) ==
    IF FileOpens(path) /\ MmapOk(path)
    THEN PushRecords(s, path, FontInfoIter(Tree[path].faces), 0)
    ELSE s

(* WalkDir with follow_links and sort_by file name, errors filtered out:  *)
(* the entry itself, then the entries below it in file-name order; a      *)
(* directory that cannot be read gives the entry itself only.             *)
RECURSIVE Walk(_)
Walk(p) ==
    IF ~Exists(p) THEN <<>>
    ELSE LET names == SortNames(IF Tree[p].open THEN Tree[p].names ELSE {})
         IN <<p>> \o Flatten([i \in 1..Len(names) |-> Walk(Append(p, names[i]))])

IsFontCandidate(p) == Extension(p).some /\ Extension(p).val \in FontExtensions

RECURSIVE SearchEntries(_, _)
SearchEntries(s, entries) ==
    IF entries = <<>> THEN s
    ELSE SearchEntries(IF IsFontCandidate(entries[1])
                       THEN search_file(s, entries[1])
                       ELSE s,
                       Tail(entries))

search_dir(s, path) == SearchEntries(s, Walk(path))

(* search_system of the linux build; fontDir is dirs::font_dir().         *)
search_system(s, fontDir) ==
    LET s1 == search_dir(s, SysDir1)
        s2 == search_dir(s1, SysDir2)
    IN IF fontDir.some THEN search_dir(s2, fontDir.val) ELSE s2


(* ------------------------ sources and file ids ------------------------ *)
n_MARKUP_tsp == <<77, 65, 82, 75, 85, 80, 46, 116, 115, 112>>
n_main_typ == <<109, 97, 105, 110, 46, 116, 121, 112>>
n_a == <<97>>
MarkupPath == <<n_MARKUP_tsp>>

(* VirtualPath::new: the path made absolute below a virtual root, "."     *)
(* dropped and ".." resolved against a preceding normal component.        *)
RECURSIVE VirtualPathPush(_, _)
VirtualPathPush(acc, comps) ==
    IF comps = <<>> THEN acc
    ELSE LET c == comps[1]
             nxt == IF c = RootDir \/ c = CurDir THEN acc
                    ELSE IF c = ParentDir
                         THEN IF Last(acc) \notin {RootDir, CurDir, ParentDir}
                              THEN Front(acc)
                              ELSE Append(acc, c)
                         ELSE Append(acc, c)
         IN VirtualPathPush(nxt, Tail(comps))

VirtualPathNew(path) == VirtualPathPush(<<RootDir>>, path)

(* FileId::new(None, vpath): ids are interned, so the same package and    *)
(* virtual path always give the same id.                                  *)
FileIdNew(vpath) == [package |-> "None", vpath |-> vpath]

(* Source::new *)
SourceNew(id, text) == [id |-> id, text |-> text]

(* Source::detached("detached"), the main unit of a world not yet used.   *)
DetachedSource ==
    SourceNew(FileIdNew(VirtualPathNew(<<n_main_typ>>)),
              <<100, 101, 116, 97, 99, 104, 101, 100>>)

MarkupId == FileIdNew(VirtualPathNew(MarkupPath))
OtherId == FileIdNew(VirtualPathNew(<<n_a>>))

(* The file ids the compiler asks for.                                    *)
Ids == {MarkupId, OtherId, DetachedSource.id}

(* The markup texts handed to compile, as sequences of code points:       *)
(* "Hi" and "e-acute".                                                    *)
Markups == {<<72, 105>>, <<233>>}

Ok(v) == [ok |-> TRUE, val |-> v, err |-> ""]
Err(e) == [ok |-> FALSE, val |-> <<>>, err |-> e]

(* str::as_bytes: the UTF-8 encoding of the text.                         *)
Utf8Char(c) ==
    IF c < 128 THEN <<c>>
    ELSE IF c < 2048 THEN <<192 + (c \div 64), 128 + (c % 64)>>
    ELSE <<224 + (c \div 4096), 128 + ((c \div 64) % 64), 128 + (c % 64)>>

RECURSIVE AsBytes(_)
AsBytes(text) ==
    IF text = <<>> THEN <<>> ELSE Utf8Char(text[1]) \o AsBytes(Tail(text))

(* Iterator::find over the registry: the first index at or after i whose  *)
(* unit has the id, 0 when there is none.                                 *)
RECURSIVE FindFrom(_, _, _)
FindFrom(srcs, id, i) ==
    IF i > Len(srcs) THEN 0
    ELSE IF srcs[i].id = id THEN i
    ELSE FindFrom(srcs, id, i + 1)

(* A source that keeps scanning and returns the last match.               *)
source_last(srcs, id) ==
    LET hits == {i \in 1..Len(srcs) : srcs[i].id = id}
    IN IF hits = {} THEN Err("NotSource")
       ELSE Ok(srcs[CHOOSE i \in hits : \A j \in hits : j <= i])

(* World::source *)
source(srcs, id) ==
    LET k == FindFrom(srcs, id, 1)
    IN IF k = 0 THEN Err("NotSource") ELSE Ok(srcs[k])

(* A file that hands out the code points of the text as its bytes.       *)
file_raw(srcs, id) ==
    LET r == source(srcs, id)
    IN IF r.ok THEN Ok(r.val.text) ELSE Err(r.err)

(* World::file *)
file(srcs, id) ==
    LET r == source(srcs, id)
    IN IF r.ok THEN Ok(AsBytes(r.val.text)) ELSE Err(r.err)

(* An insert that puts the unit in the place of one that has its id.      *)
insert_replacing(srcs, path, text) ==
    LET id == FileIdNew(VirtualPathNew(path))
        k == FindFrom(srcs, id, 1)
    IN [sources |-> IF k = 0 THEN Append(srcs, SourceNew(id, text))
                    ELSE [srcs EXCEPT ![k] = SourceNew(id, text)],
        id |-> id]

(* SystemWorld::insert: the registry after the push, and the id returned. *)
insert(srcs, path, text) ==
    LET id == FileIdNew(VirtualPathNew(path))
    IN [sources |-> Append(srcs, SourceNew(id, text)), id |-> id]

(* ----------------------------- font decode ---------------------------- *)
(* What is on disk at a descriptor's path when the font is first asked    *)
(* for, which may be later than discovery: the path is gone, is now a     *)
(* directory, cannot be read, holds the data seen at discovery, or holds  *)
(* other data that is no font.                                            *)
DiskStates == {"gone", "dir", "unreadable", "same", "changed"}

(* read(path): fs::metadata, the is_dir test, fs::read.                   *)
read(path, disk) ==
    IF disk = "gone" THEN Err("NotFound")
    ELSE IF disk = "dir" THEN Err("IsDirectory")
    ELSE IF disk = "unreadable" THEN Err("AccessDenied")
    ELSE IF disk = "same" THEN Ok(Tree[path].faces)
    ELSE Ok(<<BadFace>>)

(* Font::new(data, index): the face at the collection index, when it      *)
(* exists and parses.                                                     *)
FontNew(path, data, index) ==
    IF index + 1 \in 1..Len(data) /\ data[index + 1].info # "none"
    THEN DecodedFont(path, index, data[index + 1].info)
    ELSE NoFont

(* The closure of get_or_init in World::font.                             *)
DecodeSlot(slot, disk) ==
    LET data == read(slot.path, disk)
    IN IF data.ok THEN FontNew(slot.path, data.val, slot.index) ELSE NoFont

(* A font that decodes on every call instead of get_or_init.              *)
font_no_memo(fs, id, disk) ==
    IF id + 1 \notin 1..Len(fs)
    THEN [fonts |-> fs, val |-> NoFont, read |-> FALSE, panic |-> "index out of bounds"]
    ELSE LET f == DecodeSlot(fs[id + 1], disk)
         IN [fonts |-> [fs EXCEPT ![id + 1].font = f],
             val |-> f, read |-> TRUE, panic |-> ""]

(* A font that unwraps the result of read instead of ok()?.               *)
font_unwrap(fs, id, disk) ==
    IF id + 1 \notin 1..Len(fs)
    THEN [fonts |-> fs, val |-> NoFont, read |-> FALSE, panic |-> "index out of bounds"]
    ELSE LET slot == fs[id + 1]
         IN IF slot.font.set
            THEN [fonts |-> fs, val |-> slot.font, read |-> FALSE, panic |-> ""]
            ELSE IF ~read(slot.path, disk).ok
                 THEN [fonts |-> fs, val |-> NoFont, read |-> TRUE, panic |-> "unwrap"]
                 ELSE LET f == DecodeSlot(slot, disk)
                      IN [fonts |-> [fs EXCEPT ![id + 1].font = f],
                          val |-> f, read |-> TRUE, panic |-> ""]

(* World::font on catalog fs: the catalog after the call, the value       *)
(* returned, whether the file was read, and the panic, if any.            *)
font(fs, id, disk) ==
    IF id + 1 \notin 1..Len(fs)
    THEN [fonts |-> fs, val |-> NoFont, read |-> FALSE, panic |-> "index out of bounds"]
    ELSE LET slot == fs[id + 1]
         IN IF slot.font.set
            THEN [fonts |-> fs, val |-> slot.font, read |-> FALSE, panic |-> ""]
            ELSE LET f == DecodeSlot(slot, disk)
                 IN [fonts |-> [fs EXCEPT ![id + 1].font = f],
                     val |-> f, read |-> TRUE, panic |-> ""]


(* ------------------- path identity and the two caches ----------------- *)
n_r == <<114>>
n_l == <<108>>
n_h == <<104>>
n_b == <<98>>
n_m == <<109>>
n_s == <<115>>

(* The source files below the working directory /r: a is a file, l a      *)
(* symbolic link to a, h a hard link to a, b another file, s a file that   *)
(* may not be opened; m does not exist.                                    *)
Handle(dev, ino) == [dev |-> dev, ino |-> ino]
HandleA == Handle(1, 11)
HandleB == Handle(1, 12)

SlotPaths ==
    {<<n_a>>, <<CurDir, n_a>>, <<RootDir, n_r, n_a>>, <<n_l>>, <<n_h>>,
     <<n_b>>, <<n_m>>, <<n_s>>}

(* Handle::from_path: the device and inode the path leads to, symbolic    *)
(* links followed, or the io error of the open.                           *)
HandleFromPath(p) ==
    IF p \in {<<n_a>>, <<CurDir, n_a>>, <<RootDir, n_r, n_a>>, <<n_l>>, <<n_h>>,
              <<RootDir, n_r, n_h>>}
    THEN Ok(HandleA)
    ELSE IF p \in {<<n_b>>, <<RootDir, n_r, n_b>>} THEN Ok(HandleB)
    ELSE IF p \in {<<n_s>>, <<RootDir, n_r, n_s>>} THEN Err("AccessDenied")
    ELSE Err("NotFound")

(* Path::canonicalize: the absolute path with links resolved.             *)
Canonicalize(p) ==
    IF p \in {<<n_a>>, <<CurDir, n_a>>, <<RootDir, n_r, n_a>>, <<n_l>>}
    THEN Ok(<<RootDir, n_r, n_a>>)
    ELSE IF p \in {<<n_h>>, <<RootDir, n_r, n_h>>} THEN Ok(<<RootDir, n_r, n_h>>)
    ELSE IF p \in {<<n_b>>, <<RootDir, n_r, n_b>>} THEN Ok(<<RootDir, n_r, n_b>>)
    ELSE IF p \in {<<n_s>>, <<RootDir, n_r, n_s>>} THEN Ok(<<RootDir, n_r, n_s>>)
    ELSE Err("NotFound")

(* A test that takes a ".." for a normal name too.                        *)
IsNormal_or_parent(c) == c \notin {RootDir, CurDir}

(* Component::Normal(_) *)
IsNormal(c) == c \notin {RootDir, CurDir, ParentDir}

(* PathBuf::push of one component: a root replaces the path.              *)
PathPush(out, c) == IF c = RootDir THEN <<RootDir>> ELSE Append(out, c)

RECURSIVE NormalizeFrom(_, _)
NormalizeFrom(out, comps) ==
    IF comps = <<>> THEN out
    ELSE LET c == comps[1]
             nxt == IF c = CurDir THEN out
                    ELSE IF c = ParentDir
                         THEN IF out # <<>> /\ IsNormal(Last(out))
                              THEN Front(out)
                              ELSE PathPush(out, c)
                         ELSE PathPush(out, c)
         IN NormalizeFrom(nxt, Tail(comps))

normalize(path) == NormalizeFrom(<<>>, path)

(* A PathHash that hashes the text of the path instead of the handle.     *)
PathHashNew_of_text(p) ==
    LET h == HandleFromPath(p)
    IN IF h.ok THEN Ok(p) ELSE Err(h.err)

(* PathHash::new: the 128-bit SipHash of the handle, a value that is the  *)
(* same exactly for equal handles (collisions are not modelled).          *)
PathHashNew(p) ==
    LET h == HandleFromPath(p)
    IN IF h.ok THEN Ok(<<h.val.dev, h.val.ino>>) ELSE Err(h.err)

(* PathSlot::default *)
DefaultPathSlot == [source |-> "unset", buffer |-> "unset"]

NoHashes == [p \in {} |-> Err("")]
NoPaths == [h \in {} |-> DefaultPathSlot]

(* HashMap::insert *)
MapInsert(m, k, v) == [x \in DOMAIN m \cup {k} |-> IF x = k THEN v ELSE m[x]]

(* A miss that stores the hash under the path only.                      *)
HashMiss_no_canon(hs, path) ==
    LET hash == PathHashNew(path)
    IN [hashes |-> MapInsert(hs, path, hash), hash |-> hash]

(* The closure of map_or_else in slot, run on a miss: the hash computed   *)
(* and the cache with it stored under the canonical form and the path.    *)
HashMiss(hs, path) ==
    LET hash == PathHashNew(path)
        canon == Canonicalize(path)
        h1 == IF canon.ok THEN MapInsert(hs, normalize(canon.val), hash) ELSE hs
    IN [hashes |-> MapInsert(h1, path, hash), hash |-> hash]

(* A slot that stores a hash only when PathHash::new succeeded.            *)
slot_forgets_errors(hs, ps, path) ==
    LET hit == path \in DOMAIN hs
        m == IF hit THEN [hashes |-> hs, hash |-> hs[path]] ELSE HashMiss(hs, path)
    IN IF ~m.hash.ok
       THEN [hashes |-> hs, paths |-> ps, res |-> Err(m.hash.err), hashed |-> ~hit]
       ELSE [hashes |-> m.hashes,
             paths |-> IF m.hash.val \in DOMAIN ps THEN ps
                       ELSE MapInsert(ps, m.hash.val, DefaultPathSlot),
             res |-> Ok(m.hash.val), hashed |-> ~hit]

(* SystemWorld::slot: the caches after the call, the result (the key of   *)
(* the slot borrowed, or the error) and whether PathHash::new was called. *)
slot(hs, ps, path) ==
    LET hit == path \in DOMAIN hs
        m == IF hit THEN [hashes |-> hs, hash |-> hs[path]] ELSE HashMiss(hs, path)
    IN IF ~m.hash.ok
       THEN [hashes |-> m.hashes, paths |-> ps, res |-> Err(m.hash.err), hashed |-> ~hit]
       ELSE [hashes |-> m.hashes,
             paths |-> IF m.hash.val \in DOMAIN ps THEN ps
                       ELSE MapInsert(ps, m.hash.val, DefaultPathSlot),
             res |-> Ok(m.hash.val), hashed |-> ~hit]

(* A reset that leaves the registry alone.                                *)
reset_keeps_sources(w) == [w EXCEPT !.hashes = NoHashes, !.paths = NoPaths]

(* A reset that leaves the path-resolution cache alone.                   *)
reset_keeps_hashes(w) == [w EXCEPT !.sources = <<>>, !.paths = NoPaths]

(* A reset that also empties the lazy cells of the catalog.               *)
reset_drops_fonts(w) ==
    [w EXCEPT !.sources = <<>>, !.hashes = NoHashes, !.paths = NoPaths,
              !.fonts = [i \in 1..Len(w.fonts) |-> [w.fonts[i] EXCEPT !.font = EmptyCell]]]

(* SystemWorld::reset on the fields of the world.                         *)
reset(w) == [w EXCEPT !.sources = <<>>, !.hashes = NoHashes, !.paths = NoPaths]


(* --------------------------- diagnostics ------------------------------ *)
(* A span: the file id it belongs to (none when detached) and, when it    *)
(* numbers a node of that file's syntax tree, the node's byte range.      *)
Span(id, node, lo, hi) == [id |-> id, node |-> node, lo |-> lo, hi |-> hi]
NoFileId == [some |-> FALSE, val |-> FileIdNew(<<>>)]
DetachedSpan == Span(NoFileId, FALSE, 0, 0)
MainSpan(lo, hi) == Span(Some(MarkupId), TRUE, lo, hi)

(* Span::id *)
SpanId(span) == span.id

(* Source::range and Source::find(..).range(): the range of the node the  *)
(* span numbers, none when the source has no such node.                   *)
SourceRange(src, span) ==
    IF span.id.some /\ span.id.val = src.id /\ span.node
    THEN Some(<<span.lo, span.hi>>)
    ELSE None

Diag(span, message, trace) == [span |-> span, message |-> message, trace |-> trace]
TracePoint(span, v) == [span |-> span, v |-> v]

(* The diagnostics the compiler may yield, with messages "x", "y", "z":   *)
(* in the main document without and with a trace, detached, with a        *)
(* detached trace point, in a file that is no registered source, and with *)
(* a span the main document has no node for.                              *)
DiagPlain == Diag(MainSpan(0, 2), <<120>>, <<>>)
DiagTraced == Diag(MainSpan(1, 12), <<121>>, <<TracePoint(MainSpan(0, 1), <<122>>)>>)
DiagDetached == Diag(DetachedSpan, <<120>>, <<>>)
DiagDetachedTrace == Diag(MainSpan(0, 1), <<121>>, <<TracePoint(DetachedSpan, <<122>>)>>)
DiagForeign == Diag(Span(Some(OtherId), TRUE, 0, 1), <<120>>, <<>>)
DiagStale == Diag(Span(Some(MarkupId), FALSE, 0, 1), <<120>>, <<>>)

(* The lists of diagnostics a failed typst::compile may return.           *)
ErrorLists ==
    {<<DiagPlain>>, <<DiagTraced>>, <<DiagTraced, DiagPlain>>, <<DiagDetached>>,
     <<DiagPlain, DiagDetachedTrace>>, <<DiagForeign>>, <<DiagStale>>}

RECURSIVE Decimal(_)
(* Display of an unsigned integer: its decimal digits.                    *)
Decimal(n) == IF n < 10 THEN <<48 + n>> ELSE Decimal(n \div 10) \o <<48 + (n % 10)>>

(* "compile error:\n" and "stacktrace:\n" *)
CompileErrorHeader ==
    <<99, 111, 109, 112, 105, 108, 101, 32, 101, 114, 114, 111, 114, 58, 10>>
StacktraceHeader ==
    <<115, 116, 97, 99, 107, 116, 114, 97, 99, 101, 58, 10>>

(* A format that writes the end of the range before its start.            *)
FormatRange_swapped(range, message) ==
    Decimal(range[2]) \o <<58>> \o Decimal(range[1]) \o <<32>> \o message

(* format!("{}:{} {}", range.start, range.end, message) *)
FormatRange(range, message) ==
    Decimal(range[1]) \o <<58>> \o Decimal(range[2]) \o <<32>> \o message

(* The outcome of compile: exported bytes, an error string (the text of   *)
(* the formatted diagnostics, or the display of a FileError), or a panic. *)
OutNone == [kind |-> "none", bytes |-> <<>>, text |-> <<>>, error |-> ""]
OutOk(bytes) == [kind |-> "ok", bytes |-> bytes, text |-> <<>>, error |-> ""]
OutErr(text) == [kind |-> "err", bytes |-> <<>>, text |-> text, error |-> ""]
OutFileError(e) == [kind |-> "err", bytes |-> <<>>, text |-> <<>>, error |-> e]
OutPanic(what) == [kind |-> "panic", bytes |-> <<>>, text |-> <<>>, error |-> what]

RECURSIVE FormatTrace(_, _, _)
(* The loop over error.trace.                                             *)
FormatTrace(srcs, msg, trace) ==
    IF trace = <<>> THEN OutErr(msg)
    ELSE LET point == trace[1]
             id == SpanId(point.span)
         IN IF ~id.some THEN OutFileError("Other(is detached)")
            ELSE LET src == source(srcs, id.val)
                 IN IF ~src.ok THEN OutFileError(src.err)
                    ELSE LET range == SourceRange(src.val, point.span)
                         IN IF ~range.some THEN OutPanic("unwrap")
                            ELSE FormatTrace(srcs,
                                     msg \o <<32, 32>> \o FormatRange(range.val, point.v),
                                     Tail(trace))

RECURSIVE FormatErrors(_, _, _)
(* The loop over errors.                                                  *)
FormatErrors(srcs, msg, errors) ==
    IF errors = <<>> THEN OutErr(msg)
    ELSE LET error == errors[1]
             id == SpanId(error.span)
         IN IF ~id.some THEN OutPanic("expect: the span must reference a fileid")
            ELSE LET src == source(srcs, id.val)
                 IN IF ~src.ok THEN OutFileError(src.err)
                    ELSE LET range == SourceRange(src.val, error.span)
                         IN IF ~range.some
                            THEN OutPanic("expect: catches an extra check using find")
                            ELSE LET m1 == msg \o FormatRange(range.val, error.message)
                                     m2 == IF error.trace # <<>>
                                           THEN m1 \o StacktraceHeader ELSE m1
                                     t == FormatTrace(srcs, m2, error.trace)
                                 IN IF t.kind # "err" \/ t.error # "" THEN t
                                    ELSE FormatErrors(srcs, t.text, Tail(errors))

(* The bytes typst::export::pdf returns, abstracted to the "%PDF" magic.  *)
PdfBytes == <<37, 80, 68, 70>>


(* ------------------------------- state -------------------------------- *)
VARIABLES
    pc,          \* "new": in SystemWorld::new; "idle"; "active": in typst::compile;
                 \* "panicked": a panic has unwound out of compile
    stage,       \* the position in SystemWorld::new: "system", "extra", "built"
    font_paths,  \* the font_paths of new not yet searched
    font_files,  \* the font_files of new not yet searched
    root,        \* SystemWorld.root
    book,        \* FontSearcher.book, then SystemWorld.book
    fonts,       \* FontSearcher.fonts, then SystemWorld.fonts
    hashes,      \* SystemWorld.hashes
    paths,       \* SystemWorld.paths
    sources,     \* SystemWorld.sources
    main,        \* SystemWorld.main
    ret,         \* the call the compiler made last and what it returned; once
                 \* typst::compile has failed, the errors it returned
    out,         \* what the last compile call returned
    prev,        \* history: the id and text insert registered in the compile
                 \* call before the last one
    cur,         \* history: the last compile call, what its reset found and what
                 \* its insert registered
    reads,       \* history: per catalog index, the reads of the font file
    hashed       \* history: per path, the PathHash::new calls of this run

vars ==
    <<pc, stage, font_paths, font_files, root, book, fonts, hashes, paths,
      sources, main, ret, out, prev, cur, reads, hashed>>

(* The font_paths and font_files a world may be built with.               *)
FontPathArgs ==
    {<<>>, <<XDir>>,
     <<NopePath, KDir, Append(XDir, n_n_ttf), Append(Append(SysDir1, n_sub), n_c_otf),
       Append(XDir, n_f_ttf)>>}
FontFileArgs == {<<>>, <<Append(XDir, n_n_ttf), Append(XDir, n_e_txt)>>}

(* A call of the compiler: the accessor, its argument, its result and,    *)
(* when the call read a font file, what was on disk.                      *)
NoCall == [op |-> "none", arg |-> <<>>, res |-> Ok(<<>>), io |-> "none"]
Call(op, arg, res) == [op |-> op, arg |-> arg, res |-> res, io |-> "none"]
FontCall(id, res, disk) == [op |-> "font", arg |-> id, res |-> res, io |-> disk]

(* The history entry of one compile call: the outcome of the call before  *)
(* it, whether reset found both caches filled, and the id and text insert *)
(* registered.                                                            *)
NoEntry == [called |-> FALSE, after |-> "none", dirty |-> FALSE,
            id |-> NoFileId.val, text |-> <<>>]
CompileEntry(w, id, text) ==
    [called |-> TRUE,
     after |-> out.kind,
     dirty |-> DOMAIN w.hashes # {} /\ DOMAIN w.paths # {},
     id |-> id,
     text |-> text]
(* What is kept of an entry once a later call has been made.              *)
Earlier(e) == [e EXCEPT !.after = "none", !.dirty = FALSE]

World == [sources |-> sources, hashes |-> hashes, paths |-> paths,
          fonts |-> fonts, book |-> book, main |-> main]

(* SystemWorld::new is entered with its arguments; the searcher is empty.  *)
Init ==
    /\ pc = "new"
    /\ stage = "system"
    /\ font_paths \in FontPathArgs
    /\ font_files \in FontFileArgs
    /\ root = <<CurDir>>
    /\ book = NewSearcher.book
    /\ fonts = NewSearcher.fonts
    /\ hashes = NoHashes
    /\ paths = NoPaths
    /\ sources = <<>>
    /\ main = DetachedSource
    /\ ret = NoCall
    /\ out = OutNone
    /\ prev = NoEntry
    /\ cur = NoEntry
    /\ reads = <<>>
    /\ hashed = [p \in SlotPaths |-> 0]

WorldFrame == UNCHANGED <<hashes, paths, sources, main, ret, out, prev, cur, hashed>>

(* new: searcher.search_system() *)
SearchSystem ==
    /\ pc = "new" /\ stage = "system"
    /\ \E fontDir \in {None, Some(HomeFontDir)} :
         LET s == search_system([book |-> book, fonts |-> fonts], fontDir)
         IN book' = s.book /\ fonts' = s.fonts
    /\ stage' = "extra"
    /\ UNCHANGED <<pc, font_paths, font_files, root, reads>>
    /\ WorldFrame

(* new: one iteration of the loop over font_paths *)
SearchDir ==
    /\ pc = "new" /\ stage = "extra" /\ font_paths # <<>>
    /\ LET s == search_dir([book |-> book, fonts |-> fonts], Head(font_paths))
       IN book' = s.book /\ fonts' = s.fonts
    /\ font_paths' = Tail(font_paths)
    /\ UNCHANGED <<pc, stage, font_files, root, reads>>
    /\ WorldFrame

(* new: one iteration of the loop over font_files *)
SearchFile ==
    /\ pc = "new" /\ stage = "extra" /\ font_paths = <<>> /\ font_files # <<>>
    /\ LET s == search_file([book |-> book, fonts |-> fonts], Head(font_files))
       IN book' = s.book /\ fonts' = s.fonts
    /\ font_files' = Tail(font_files)
    /\ UNCHANGED <<pc, stage, font_paths, root, reads>>
    /\ WorldFrame

(* new: the world is built from the searcher.                             *)
Build ==
    /\ pc = "new" /\ stage = "extra" /\ font_paths = <<>> /\ font_files = <<>>
    /\ pc' = "idle" /\ stage' = "built"
    /\ reads' = [i \in 1..Len(fonts) |-> 0]
    /\ UNCHANGED <<font_paths, font_files, root, book, fonts>>
    /\ WorldFrame

CatalogFrame == UNCHANGED <<stage, font_paths, font_files, root, book>>

(* compile, up to the call of typst::compile: reset, insert, source.      *)
CompileStart(markup) ==
    /\ pc = "idle"
    /\ LET w == reset(World)
           ins == insert(w.sources, MarkupPath, markup)
           m == source(ins.sources, ins.id)
       IN /\ sources' = ins.sources
          /\ hashes' = w.hashes
          /\ paths' = w.paths
          /\ fonts' = w.fonts
          /\ cur' = CompileEntry(World, ins.id, markup)
          /\ prev' = Earlier(cur)
          /\ IF m.ok
             THEN main' = m.val /\ pc' = "active" /\ out' = OutNone
             ELSE main' = w.main /\ pc' = "idle" /\ out' = OutFileError(m.err)
    /\ ret' = NoCall
    /\ hashed' = [p \in SlotPaths |-> 0]
    /\ UNCHANGED reads
    /\ CatalogFrame

Compile == \E markup \in Markups : CompileStart(markup)

AccessorFrame ==
    /\ UNCHANGED <<pc, hashes, paths, sources, main, out, prev, cur, hashed>>
    /\ CatalogFrame

(* World::library *)
CallLibrary ==
    /\ pc = "active"
    /\ ret' = Call("library", <<>>, Ok(<<>>))
    /\ UNCHANGED <<fonts, reads>>
    /\ AccessorFrame

(* World::book *)
CallBook ==
    /\ pc = "active"
    /\ ret' = Call("book", <<>>, Ok(book))
    /\ UNCHANGED <<fonts, reads>>
    /\ AccessorFrame

(* World::main *)
CallMain ==
    /\ pc = "active"
    /\ ret' = Call("main", <<>>, Ok(main))
    /\ UNCHANGED <<fonts, reads>>
    /\ AccessorFrame

(* A source accessor that resolves an id that is not registered to its    *)
(* path, and registers the file it finds there.                           *)
CallSource_loading ==
    /\ pc = "active"
    /\ \E id \in Ids :
         LET found == source(sources, id)
             r == slot(hashes, paths, <<n_a>>)
             ins == insert(sources, <<n_a>>, <<72, 105>>)
         IN IF found.ok \/ id # OtherId \/ ~r.res.ok
            THEN /\ ret' = Call("source", id, found)
                 /\ UNCHANGED <<sources, hashes, paths>>
            ELSE /\ sources' = ins.sources
                 /\ hashes' = r.hashes
                 /\ paths' = r.paths
                 /\ ret' = Call("source", id, Ok(Last(ins.sources)))
    /\ UNCHANGED <<pc, main, out, prev, cur, hashed, fonts, reads>>
    /\ CatalogFrame

(* World::source *)
CallSource ==
    /\ pc = "active"
    /\ \E id \in Ids : ret' = Call("source", id, source(sources, id))
    /\ UNCHANGED <<fonts, reads>>
    /\ AccessorFrame

(* World::file *)
CallFile ==
    /\ pc = "active"
    /\ \E id \in Ids : ret' = Call("file", id, file(sources, id))
    /\ UNCHANGED <<fonts, reads>>
    /\ AccessorFrame

(* World::font, called with an index of the font book.                    *)
CallFont ==
    /\ pc = "active"
    /\ \E id \in 0..(Len(book) - 1), disk \in DiskStates :
         LET r == font(fonts, id, disk)
         IN IF r.panic # ""
            THEN /\ pc' = "panicked"
                 /\ out' = OutPanic(r.panic)
                 /\ ret' = FontCall(id, Err("panic"), "none")
                 /\ UNCHANGED <<fonts, reads>>
            ELSE /\ fonts' = r.fonts
                 /\ ret' = FontCall(id, Ok(r.val), IF r.read THEN disk ELSE "none")
                 /\ reads' = IF r.read THEN [reads EXCEPT ![id + 1] = @ + 1] ELSE reads
                 /\ UNCHANGED <<pc, out>>
    /\ UNCHANGED <<hashes, paths, sources, main, prev, cur, hashed>>
    /\ CatalogFrame

(* World::today: unimplemented!()                                         *)
CallToday ==
    /\ pc = "active"
    /\ pc' = "panicked"
    /\ out' = OutPanic("not implemented")
    /\ ret' = Call("today", <<>>, Err("panic"))
    /\ UNCHANGED <<fonts, reads, hashes, paths, sources, main, prev, cur, hashed>>
    /\ CatalogFrame

(* typst::compile returned Ok(document): export the PDF.                  *)
CompileOk ==
    /\ pc = "active"
    /\ out' = OutOk(PdfBytes)
    /\ pc' = "idle"
    /\ ret' = NoCall
    /\ UNCHANGED <<fonts, reads, hashes, paths, sources, main, prev, cur, hashed>>
    /\ CatalogFrame

(* typst::compile returned Err(errors): format the diagnostics.           *)
CompileErr ==
    /\ pc = "active"
    /\ \E errors \in ErrorLists :
         LET o == FormatErrors(sources, CompileErrorHeader, errors)
         IN /\ out' = o
            /\ pc' = IF o.kind = "panic" THEN "panicked" ELSE "idle"
            /\ ret' = Call("errors", errors, Ok(<<>>))
    /\ UNCHANGED <<fonts, reads, hashes, paths, sources, main, prev, cur, hashed>>
    /\ CatalogFrame

Next ==
    \/ SearchSystem
    \/ SearchDir
    \/ SearchFile
    \/ Build
    \/ Compile
    \/ CallLibrary
    \/ CallBook
    \/ CallMain
    \/ CallSource
    \/ CallFile
    \/ CallFont
    \/ CallToday
    \/ CompileOk
    \/ CompileErr

Spec == Init /\ [][Next]_vars


(* ------------- the private operations, applied to a world ------------- *)
(* slot and insert are private to SystemWorld; of the code in lib.rs only *)
(* compile calls insert and nothing calls slot. SpecSlot and SpecRegistry *)
(* apply them to a world in the middle of a compile call, in any order,   *)
(* as an accessor resolving paths or registering files would.             *)

(* The world SystemWorld::new(".", &[], &[]) builds without a font_dir.   *)
InitBuilt ==
    /\ pc = "idle"
    /\ stage = "built"
    /\ font_paths = <<>>
    /\ font_files = <<>>
    /\ root = <<CurDir>>
    /\ book = search_system(NewSearcher, None).book
    /\ fonts = search_system(NewSearcher, None).fonts
    /\ hashes = NoHashes
    /\ paths = NoPaths
    /\ sources = <<>>
    /\ main = DetachedSource
    /\ ret = NoCall
    /\ out = OutNone
    /\ prev = NoEntry
    /\ cur = NoEntry
    /\ reads = [i \in 1..Len(search_system(NewSearcher, None).fonts) |-> 0]
    /\ hashed = [p \in SlotPaths |-> 0]

(* SystemWorld::slot(path) *)
OpSlot ==
    /\ pc = "active"
    /\ \E path \in SlotPaths :
         LET r == slot(hashes, paths, path)
         IN /\ hashes' = r.hashes
            /\ paths' = r.paths
            /\ ret' = Call("slot", path, r.res)
            /\ hashed' = IF r.hashed THEN [hashed EXCEPT ![path] = @ + 1] ELSE hashed
    /\ UNCHANGED <<pc, sources, main, out, prev, cur, fonts, reads>>
    /\ CatalogFrame

(* The paths files are registered under.                                  *)
InsertPaths == {<<n_a>>, <<CurDir, n_a>>, <<n_b>>}

(* SystemWorld::insert(path, text) *)
OpInsert ==
    /\ pc = "active" /\ Len(sources) < MaxUnits
    /\ \E path \in InsertPaths, text \in Markups :
         LET r == insert(sources, path, text)
         IN /\ sources' = r.sources
            /\ ret' = Call("insert", path, Ok(r.id))
    /\ UNCHANGED <<pc, hashes, paths, main, out, prev, cur, hashed, fonts, reads>>
    /\ CatalogFrame

NextSlot ==
    \/ Compile
    \/ OpSlot
    \/ CallMain
    \/ CompileOk
    \/ CompileErr

SpecSlot == InitBuilt /\ [][NextSlot]_vars

NextRegistry ==
    \/ Compile
    \/ OpInsert
    \/ CallSource
    \/ CallFile
    \/ CompileOk

SpecRegistry == InitBuilt /\ [][NextRegistry]_vars

(* --------------------- the construction on its own -------------------- *)
(* SystemWorld::new with font_paths and font_files that reach the         *)
(* directory /y: nested directories, a collection, a path given twice.    *)
CatalogPathArgs ==
    {<<>>, <<YDir>>, <<XDir, YDir>>, <<YDir, NopePath>>,
     <<Append(YDir, n_c), Append(XDir, n_f_ttf)>>, <<YDir, Append(YDir, n_c)>>}
CatalogFileArgs ==
    {<<>>, <<Append(YDir, n_e_ttc), Append(SysDir1, n_a_TTC)>>,
     <<Append(XDir, n_n_ttf), Append(XDir, n_e_txt), Append(XDir, n_g_otf),
       Append(Append(SysDir1, n_sub), n_c_otf), NopePath>>}

InitCatalog ==
    /\ pc = "new"
    /\ stage = "system"
    /\ font_paths \in CatalogPathArgs
    /\ font_files \in CatalogFileArgs
    /\ root = <<CurDir>>
    /\ book = NewSearcher.book
    /\ fonts = NewSearcher.fonts
    /\ hashes = NoHashes
    /\ paths = NoPaths
    /\ sources = <<>>
    /\ main = DetachedSource
    /\ ret = NoCall
    /\ out = OutNone
    /\ prev = NoEntry
    /\ cur = NoEntry
    /\ reads = <<>>
    /\ hashed = [p \in SlotPaths |-> 0]

NextCatalog ==
    \/ SearchSystem
    \/ SearchDir
    \/ SearchFile
    \/ Build

SpecCatalog == InitCatalog /\ [][NextCatalog]_vars

(* ------------------------- normalize on its own ----------------------- *)
(* The component sequences Path::components yields: a root or a "." may   *)
(* only come first, then normal names and ".." in any order.              *)
TailComponents(n) == UNION {[1..k -> {ParentDir, n_a, n_b}] : k \in 0..n}
NormalizeInputs ==
    TailComponents(MaxComponents)
    \cup {<<first>> \o rest : first \in {RootDir, CurDir},
                             rest \in TailComponents(MaxComponents - 1)}

(* normalize(path) *)
OpNormalize ==
    /\ \E path \in NormalizeInputs :
         ret' = Call("normalize", path, Ok(normalize(path)))
    /\ UNCHANGED <<pc, hashes, paths, sources, main, out, prev, cur, hashed,
                   fonts, reads>>
    /\ CatalogFrame

NextNormalize ==
    \/ OpNormalize

SpecNormalize == InitBuilt /\ [][NextNormalize]_vars


(* ============================== claims ================================ *)
Indexes(q) == 1..Len(q)

(* The indexes of the registry whose unit has the id.                     *)
Matches(id) == {i \in Indexes(sources) : sources[i].id = id}

RECURSIVE Utf8Decode(_)
(* The code points a byte string encodes, -1 where it is not UTF-8.       *)
Utf8Decode(b) ==
    IF b = <<>> THEN <<>>
    ELSE IF b[1] < 128 THEN <<b[1]>> \o Utf8Decode(Tail(b))
    ELSE IF b[1] \in 192..223 /\ Len(b) >= 2 /\ b[2] \in 128..191
         THEN <<(b[1] - 192) * 64 + (b[2] - 128)>> \o Utf8Decode(SubSeq(b, 3, Len(b)))
    ELSE IF b[1] \in 224..239 /\ Len(b) >= 3 /\ b[2] \in 128..191 /\ b[3] \in 128..191
         THEN <<(b[1] - 224) * 4096 + (b[2] - 128) * 64 + (b[3] - 128)>>
              \o Utf8Decode(SubSeq(b, 4, Len(b)))
    ELSE <<-1>>

(* C1, as stated: once a second compile call on a world has reset and     *)
(* registered its markup, looking up the file id the first call's insert  *)
(* returned fails with NotSource.                                         *)
C1_FirstIdNotSource ==
    (prev.called /\ cur.called) =>
        (~source(sources, prev.id).ok /\ source(sources, prev.id).err = "NotSource")

(* C1, amended: both calls register the markup under the same file id, so *)
(* after the second call the lookup of the first call's id succeeds and   *)
(* returns the unit holding the second call's markup, which is the only   *)
(* unit of the registry; the first call's unit is gone.                   *)
C1_FirstIdFindsSecondUnit ==
    (prev.called /\ cur.called) =>
        /\ prev.id = cur.id
        /\ source(sources, prev.id).ok
        /\ source(sources, prev.id).val = SourceNew(cur.id, cur.text)
        /\ sources = <<SourceNew(cur.id, cur.text)>>

(* C1: the compiler looks the first call's id up in a second call whose   *)
(* markup differs from the first call's.                                  *)
C1_Witness ==
    /\ prev.called /\ cur.called /\ prev.text # cur.text
    /\ pc = "active" /\ ret.op = "source" /\ ret.arg = prev.id
    /\ ret.res.ok /\ ret.res.val.text = cur.text

(* C2: when compile hands the world to the compiler, whatever the earlier *)
(* calls did, both caches are empty, the registry holds exactly the unit  *)
(* of this call's markup under the fixed virtual name, and main is it.    *)
C2_CleanAtHandover ==
    (pc = "active" /\ ret.op = "none") =>
        /\ DOMAIN hashes = {}
        /\ DOMAIN paths = {}
        /\ Len(sources) = 1
        /\ sources[1].id.vpath = <<RootDir, n_MARKUP_tsp>>
        /\ sources[1].text = cur.text
        /\ main = sources[1]
        /\ source(sources, main.id) = Ok(main)

(* C2: a handover after a failed call that had filled both caches.        *)
C2_Witness ==
    /\ pc = "active" /\ ret.op = "none"
    /\ prev.called /\ cur.after = "err" /\ cur.dirty /\ prev.text # cur.text

(* C3: once the world is built, no step changes the font book, the length *)
(* of the catalog or the path and collection index of a descriptor, and a *)
(* lazy cell that holds a decode outcome keeps it (across reset too).     *)
C3_CatalogKept ==
    [][pc # "new" =>
          /\ book' = book
          /\ Len(fonts') = Len(fonts)
          /\ \A i \in Indexes(fonts) :
                /\ fonts'[i].path = fonts[i].path
                /\ fonts'[i].index = fonts[i].index
                /\ fonts[i].font.set => fonts'[i].font = fonts[i].font]_vars

(* C3: a later compile call has just reset the world and a cell decoded   *)
(* in an earlier call still holds its font.                               *)
C3_Witness ==
    /\ pc = "active" /\ ret.op = "none" /\ prev.called
    /\ \E i \in Indexes(fonts) : fonts[i].font.some

(* C4: source(id) returns the first unit of the registry, in insertion    *)
(* order, whose id is id, fails with NotSource when there is none, and    *)
(* leaves the registry and both caches as they were.                      *)
C4_SourceFirstMatch ==
    /\ [](ret.op = "source" =>
            IF Matches(ret.arg) = {}
            THEN ~ret.res.ok /\ ret.res.err = "NotSource"
            ELSE /\ ret.res.ok
                 /\ \E i \in Matches(ret.arg) :
                       /\ \A j \in Matches(ret.arg) : i <= j
                       /\ ret.res.val = sources[i])
    /\ [][ret'.op = "source" =>
            sources' = sources /\ hashes' = hashes /\ paths' = paths]_vars

(* C4: a lookup of an id that two units of different text carry.          *)
C4_Witness ==
    /\ ret.op = "source" /\ ret.res.ok
    /\ \E i, j \in Matches(ret.arg) : i < j /\ sources[i].text # sources[j].text

(* C5: file(id) succeeds exactly when a unit of the registry has the id   *)
(* and then returns the UTF-8 bytes of the text of the first such unit;   *)
(* otherwise it fails with NotSource; it reads no file.                   *)
C5_FileIsSourceBytes ==
    /\ [](ret.op = "file" =>
            /\ ret.res.ok <=> Matches(ret.arg) # {}
            /\ ret.res.ok <=> source(sources, ret.arg).ok
            /\ ~ret.res.ok => ret.res.err = "NotSource"
            /\ ret.res.ok =>
                 \E i \in Matches(ret.arg) :
                    /\ \A j \in Matches(ret.arg) : i <= j
                    /\ Utf8Decode(ret.res.val) = sources[i].text
                    /\ Len(ret.res.val) >= Len(sources[i].text))
    /\ [][ret'.op = "file" =>
            reads' = reads /\ hashed' = hashed /\ ret'.io = "none"]_vars

(* C5: the bytes of a text with a character outside ASCII were returned.  *)
C5_Witness ==
    /\ ret.op = "file" /\ ret.res.ok
    /\ Len(ret.res.val) > Len(Utf8Decode(ret.res.val))

(* C6: the file of a descriptor is read at most once in the life of the   *)
(* world; a font call returns what the cell holds, and a cell that holds  *)
(* an outcome (a font or absent) keeps it without another read.           *)
C6_DecodedOnce ==
    /\ [](/\ \A i \in DOMAIN reads : reads[i] <= 1
          /\ \A i \in DOMAIN reads : fonts[i].font.set <=> reads[i] = 1
          /\ ret.op = "font" => ret.res.ok /\ ret.res.val = fonts[ret.arg + 1].font)
    /\ [][\A i \in Indexes(fonts) :
            fonts[i].font.set =>
               /\ fonts'[i].font = fonts[i].font
               /\ reads'[i] = reads[i]
               /\ (ret'.op = "font" /\ ret'.arg = i - 1) =>
                     ret'.io = "none" /\ ret'.res.val = fonts[i].font]_vars

(* C6: in a later compile call, a font call for an index whose decode had *)
(* failed is answered absent without a read.                              *)
C6_Witness ==
    /\ prev.called /\ pc = "active"
    /\ ret.op = "font" /\ ret.io = "none"
    /\ ~ret.res.val.some /\ reads[ret.arg + 1] = 1

InfoAt(path, index) ==
    IF Exists(path) /\ index + 1 \in Indexes(Tree[path].faces)
    THEN Tree[path].faces[index + 1].info
    ELSE "none"

(* C8: after any calls of search_system, search_dir and search_file the   *)
(* catalog and the book have the same length and entry i of the book is   *)
(* the metadata of the face descriptor i designates.                      *)
C8_LockStep ==
    /\ Len(fonts) = Len(book)
    /\ \A i \in Indexes(fonts) : book[i] = InfoAt(fonts[i].path, fonts[i].index)

(* The paths looked up with success that lead to the handle.              *)
Resolved(h) ==
    {p \in DOMAIN hashes : hashes[p].ok /\ HandleFromPath(p) = Ok(h)}

(* C9: within a run, paths that lead to the same file get the same slot:  *)
(* the slot map has exactly one slot per file looked up, and slot returns *)
(* its key for every spelling.                                            *)
C9_OneSlotPerEntity ==
    /\ \A p, q \in DOMAIN hashes :
          (hashes[p].ok /\ hashes[q].ok) =>
             /\ hashes[p].val \in DOMAIN paths
             /\ (HandleFromPath(p) = HandleFromPath(q)) <=> (hashes[p].val = hashes[q].val)
    /\ \A h \in {HandleA, HandleB} :
          Cardinality({hashes[p].val : p \in Resolved(h)})
             = (IF Resolved(h) = {} THEN 0 ELSE 1)
    /\ Cardinality(DOMAIN paths)
          = Cardinality({h \in {HandleA, HandleB} : Resolved(h) # {}})
    /\ (ret.op = "slot" /\ ret.res.ok) =>
          /\ ret.res.val \in DOMAIN paths
          /\ \A q \in DOMAIN hashes :
                (hashes[q].ok /\ HandleFromPath(q) = HandleFromPath(ret.arg))
                   => hashes[q].val = ret.res.val

(* C9: the file a was looked up as a, through the symbolic link l and     *)
(* through the hard link h, another file b too, and there are two slots.  *)
C9_Witness ==
    /\ ret.op = "slot" /\ ret.arg = <<n_l>> /\ ret.res.ok
    /\ {<<n_a>>, <<n_h>>, <<n_l>>, <<n_b>>} \subseteq DOMAIN hashes
    /\ hashes[<<n_a>>] = hashes[<<n_l>>] /\ hashes[<<n_h>>] = hashes[<<n_l>>]
    /\ Cardinality(DOMAIN paths) = 2

RECURSIVE HashCalls(_)
(* The PathHash::new calls of this run for the paths of S.                *)
HashCalls(S) ==
    IF S = {} THEN 0
    ELSE LET p == CHOOSE x \in S : TRUE IN hashed[p] + HashCalls(S \ {p})

(* C10, as stated: within a run PathHash::new is called at most once per  *)
(* file, whatever the spellings the file is looked up through.            *)
C10_HashedOncePerFile ==
    \A h \in {HandleA, HandleB} :
       HashCalls({p \in SlotPaths : HandleFromPath(p) = Ok(h)}) <= 1

(* C10, amended: a successful lookup stores the identity under the path   *)
(* given and under its canonical form, so a later lookup of that same     *)
(* path string or of the canonical form is answered from the cache; any   *)
(* other spelling of the file is hashed again, once: PathHash::new is     *)
(* called at most once per path string per run.                           *)
C10_HashedOncePerPath ==
    /\ [](/\ \A p \in SlotPaths : hashed[p] <= 1
          /\ (ret.op = "slot" /\ ret.res.ok) =>
                /\ ret.arg \in DOMAIN hashes
                /\ hashes[ret.arg] = ret.res
                /\ Canonicalize(ret.arg).ok
                /\ normalize(Canonicalize(ret.arg).val) \in DOMAIN hashes
                /\ hashes[normalize(Canonicalize(ret.arg).val)] = ret.res)
    /\ [][(ret'.op = "slot" /\ ret'.arg \in DOMAIN hashes) =>
             hashed' = hashed /\ hashes' = hashes /\ ret'.res = hashes[ret'.arg]]_vars

(* C10: the canonical path of a was looked up after the link l and was    *)
(* answered from the cache, without a hash of its own.                    *)
C10_Witness ==
    /\ ret.op = "slot" /\ ret.arg = <<RootDir, n_r, n_a>> /\ ret.res.ok
    /\ hashed[<<RootDir, n_r, n_a>>] = 0
    /\ hashed[<<n_l>>] = 1

(* C11: a lookup whose identity computation fails records the error in    *)
(* the path-resolution cache under the path and creates no slot; a later  *)
(* lookup of the same path in the run returns the recorded error without  *)
(* another PathHash::new and without touching either cache; the record is *)
(* gone once the next compile call has reset the world.                   *)
C11_FailureMemoized ==
    /\ []((ret.op = "slot" /\ ~ret.res.ok) =>
            /\ ret.arg \in DOMAIN hashes
            /\ hashes[ret.arg] = ret.res
            /\ hashed[ret.arg] = 1)
    /\ [][(ret'.op = "slot" /\ ~ret'.res.ok) => paths' = paths]_vars
    /\ [][(ret'.op = "slot" /\ ret'.arg \in DOMAIN hashes
              /\ ~hashes[ret'.arg].ok) =>
             /\ ret'.res = hashes[ret'.arg]
             /\ hashed' = hashed /\ hashes' = hashes /\ paths' = paths]_vars
    /\ [][(pc = "idle" /\ pc' = "active") =>
             hashes' = NoHashes /\ paths' = NoPaths]_vars

(* C11: in a later compile call the missing path m was looked up again    *)
(* after the unreadable file s; both errors are on record, m was hashed   *)
(* once in this run, and the only slot is that of a file that resolved.   *)
C11_Witness ==
    /\ prev.called /\ cur.dirty
    /\ ret.op = "slot" /\ ret.arg = <<n_m>> /\ ret.res = Err("NotFound")
    /\ <<n_s>> \in DOMAIN hashes /\ hashes[<<n_s>>] = Err("AccessDenied")
    /\ hashed[<<n_m>>] = 1
    /\ Cardinality(DOMAIN paths) = 1

(* A span that is detached or whose file id is no registered source.      *)
Unresolvable(span) == ~SpanId(span).some \/ ~source(sources, SpanId(span).val).ok

(* The diagnostic has such a span, as its own or in its trace.            *)
HasUnresolvable(d) ==
    Unresolvable(d.span) \/ \E k \in Indexes(d.trace) : Unresolvable(d.trace[k].span)

(* C12: when typst::compile fails with a diagnostic whose span, its own   *)
(* or one of its trace, is detached or belongs to no registered source,   *)
(* compile returns an error value: it does not panic.                     *)
C12_UnresolvedReported ==
    (ret.op = "errors" /\ \E i \in Indexes(ret.arg) : HasUnresolvable(ret.arg[i]))
        => out.kind = "err"

(* The diagnostic's spans all number a node of a registered source.       *)
Resolves(span) ==
    /\ ~Unresolvable(span)
    /\ SourceRange(source(sources, SpanId(span).val).val, span).some

AllResolve(errors) ==
    \A i \in Indexes(errors) :
       /\ Resolves(errors[i].span)
       /\ \A k \in Indexes(errors[i].trace) : Resolves(errors[i].trace[k].span)

(* What the error string has to show, in order: each diagnostic's range   *)
(* and message, followed by the range and message of its trace points.    *)
Item(span, message) == [lo |-> span.lo, hi |-> span.hi, message |-> message]

RECURSIVE Items(_)
Items(errors) ==
    IF errors = <<>> THEN <<>>
    ELSE LET d == errors[1]
         IN <<Item(d.span, d.message)>>
            \o [k \in Indexes(d.trace) |-> Item(d.trace[k].span, d.trace[k].v)]
            \o Items(Tail(errors))

RECURSIVE DigitsEnd(_, _)
(* The position after the run of decimal digits that starts at p.         *)
DigitsEnd(text, p) ==
    IF p <= Len(text) /\ text[p] \in 48..57 THEN DigitsEnd(text, p + 1) ELSE p

RECURSIVE ParseDecimal(_)
(* The number a run of decimal digits denotes.                            *)
ParseDecimal(digits) ==
    IF digits = <<>> THEN 0
    ELSE 10 * ParseDecimal(Front(digits)) + (Last(digits) - 48)

(* The position after the item when the text reads "lo:hi message" at p,  *)
(* 0 when it does not.                                                    *)
ItemAt(text, p, item) ==
    LET e1 == DigitsEnd(text, p)
        e2 == DigitsEnd(text, e1 + 1)
        e3 == e2 + 1 + Len(item.message)
    IN IF /\ e1 > p /\ e1 <= Len(text) /\ text[e1] = 58
          /\ e2 > e1 + 1 /\ e2 <= Len(text) /\ text[e2] = 32
          /\ e3 <= Len(text) + 1
          /\ ParseDecimal(SubSeq(text, p, e1 - 1)) = item.lo
          /\ ParseDecimal(SubSeq(text, e1 + 1, e2 - 1)) = item.hi
          /\ SubSeq(text, e2 + 1, e3 - 1) = item.message
       THEN e3
       ELSE 0

RECURSIVE InOrder(_, _, _)
(* The text shows the items one after the other from position p on.       *)
InOrder(text, p, items) ==
    IF items = <<>> THEN TRUE
    ELSE \E q \in p..Len(text) :
            /\ ItemAt(text, q, items[1]) # 0
            /\ InOrder(text, ItemAt(text, q, items[1]), Tail(items))

(* C13: when typst::compile fails with diagnostics whose spans all        *)
(* resolve, compile returns one error string and no bytes; the string     *)
(* shows, in the order of the list, each diagnostic's start:end pair      *)
(* followed by its message, its trace points in the same form after it.   *)
C13_ErrorStringComplete ==
    (ret.op = "errors" /\ AllResolve(ret.arg)) =>
        /\ out.kind = "err" /\ out.error = "" /\ out.bytes = <<>>
        /\ InOrder(out.text, 1, Items(ret.arg))

(* C13: a failure with two diagnostics, the first with a trace point and  *)
(* a two-digit offset.                                                    *)
C13_Witness ==
    /\ ret.op = "errors" /\ ret.arg = <<DiagTraced, DiagPlain>>
    /\ out.kind = "err" /\ Len(out.text) > Len(CompileErrorHeader)
    /\ Len(Items(ret.arg)) = 3

(* ASCII lower case of a byte string.                                     *)
ToLower(b) == [i \in Indexes(b) |-> IF b[i] \in 65..90 THEN b[i] + 32 ELSE b[i]]

(* The extension of the path is ttf, otf, ttc or otc in some casing.      *)
AnyCaseFontExt(p) ==
    Extension(p).some /\ ToLower(Extension(p).val) \in {Ext_ttf, Ext_otf, Ext_ttc, Ext_otc}

(* The file at the path opens, maps and holds a face that parses.         *)
YieldsRecords(p) ==
    FileOpens(p) /\ MmapOk(p) /\ FontInfoIter(Tree[p].faces) # <<>>

(* C14: once the system directories are searched, a file below            *)
(* /usr/share/fonts that yields font records has descriptors in the       *)
(* catalog exactly when its extension is ttf, otf, ttc or otc compared    *)
(* without regard to case.                                                *)
C14_AnyCaseAccepted ==
    stage # "system" =>
        \A i \in Indexes(Walk(SysDir1)) :
           LET p == Walk(SysDir1)[i]
           IN YieldsRecords(p) =>
                 ((\E j \in Indexes(fonts) : fonts[j].path = p) <=> AnyCaseFontExt(p))

(* The (path, collection index) pairs of a run of descriptors.            *)
Desc(q) == [i \in Indexes(q) |-> <<q[i].path, q[i].index>>]

(* The entries at or below the path.                                      *)
Below(dir) ==
    {p \in DOMAIN Tree : Len(p) >= Len(dir) /\ SubSeq(p, 1, Len(dir)) = dir}

(* p comes before q in a walk: p is an ancestor of q, or where the two    *)
(* part the file name of p is the smaller one.                            *)
VisitedBefore(p, q) ==
    \/ Len(p) < Len(q) /\ SubSeq(q, 1, Len(p)) = p
    \/ \E i \in 1..Len(p) :
          /\ i <= Len(q)
          /\ SubSeq(p, 1, i - 1) = SubSeq(q, 1, i - 1)
          /\ LexLess(p[i], q[i])

(* The number of font records the file at the path yields.                *)
Records(p) == IF YieldsRecords(p) THEN Len(FontInfoIter(Tree[p].faces)) ELSE 0

RECURSIVE InVisitOrder(_)
(* The descriptors of the files of F, the files in walk order, each file  *)
(* with the collection indexes 0 .. Records - 1.                          *)
InVisitOrder(F) ==
    IF F = {} THEN <<>>
    ELSE LET p == CHOOSE x \in F : \A y \in F \ {x} : VisitedBefore(x, y)
         IN [i \in 1..Records(p) |-> <<p, i - 1>>] \o InVisitOrder(F \ {p})

RECURSIVE SumRecords(_)
SumRecords(F) ==
    IF F = {} THEN 0
    ELSE LET p == CHOOSE x \in F : TRUE IN Records(p) + SumRecords(F \ {p})

(* The files a search of the directory accepts.                           *)
Accepted(dir) == {p \in Below(dir) : IsFontCandidate(p)}

(* The descriptors a step of the construction has appended.               *)
Added == SubSeq(fonts', Len(fonts) + 1, Len(fonts'))

(* C15: every step of the construction appends descriptors that are a     *)
(* function of the path searched and of the files on disk: the accepted   *)
(* files in walk order (a directory before its entries, the entries of a  *)
(* directory in file-name order), each with its records numbered from 0;  *)
(* the catalog grows by the number of records of the accepted files. The  *)
(* system step depends on whether there is a user font directory.         *)
C15_DiscoveryDeterministic ==
    [][pc = "new" =>
          /\ Len(fonts') >= Len(fonts)
          /\ SubSeq(fonts', 1, Len(fonts)) = fonts
          /\ Len(book') = Len(fonts')
          /\ IF stage = "system"
             THEN \E user \in {{}, Accepted(HomeFontDir)} :
                     /\ Desc(Added) = InVisitOrder(Accepted(SysDir1))
                                          \o InVisitOrder(Accepted(SysDir2))
                                          \o InVisitOrder(user)
                     /\ Len(Added) = SumRecords(Accepted(SysDir1))
                                        + SumRecords(Accepted(SysDir2)) + SumRecords(user)
             ELSE IF font_paths # <<>>
             THEN /\ Desc(Added) = InVisitOrder(Accepted(Head(font_paths)))
                  /\ Len(Added) = SumRecords(Accepted(Head(font_paths)))
             ELSE IF font_files # <<>>
             THEN /\ Desc(Added) = InVisitOrder({Head(font_files)} \cap DOMAIN Tree)
                  /\ Len(Added) = SumRecords({Head(font_files)} \cap DOMAIN Tree)
             ELSE Added = <<>>]_vars

(* C15: a catalog built over /y: B.ttf before a.otf (bytewise order), the *)
(* file below the directory c before e.ttc, and the two records of the    *)
(* collection e.ttc last.                                                 *)
C15_Witness ==
    /\ pc = "idle"
    /\ \E i \in Indexes(fonts) :
          /\ i + 4 <= Len(fonts)
          /\ SubSeq(Desc(fonts), i, i + 4) =
                <<<<Append(YDir, n_B_ttf), 0>>, <<Append(YDir, n_a_otf), 0>>,
                  <<Append(Append(YDir, n_c), n_a_ttf), 0>>,
                  <<Append(YDir, n_e_ttc), 0>>, <<Append(YDir, n_e_ttc), 1>>>>

(* The path without the component at i, and without those at i and i + 1. *)
Without(q, i) == SubSeq(q, 1, i - 1) \o SubSeq(q, i + 1, Len(q))
WithoutPair(q, i) == SubSeq(q, 1, i - 1) \o SubSeq(q, i + 2, Len(q))

RECURSIVE Collapse(_)
(* The path with every "." struck out and then, as long as there is one,  *)
(* the leftmost ".." that follows a normal name struck out with the name.  *)
Collapse(q) ==
    LET dots == {i \in Indexes(q) : q[i] = CurDir}
        pops == {i \in Indexes(q) :
                   i < Len(q) /\ q[i] \notin {RootDir, CurDir, ParentDir}
                   /\ q[i + 1] = ParentDir}
    IN IF dots # {} THEN Collapse(Without(q, CHOOSE i \in dots : \A j \in dots : i <= j))
       ELSE IF pops # {}
            THEN Collapse(WithoutPair(q, CHOOSE i \in pops : \A j \in pops : i <= j))
            ELSE q

(* C16: normalize drops every "." and every ".." together with the normal *)
(* name it follows in the output built so far; a ".." that follows no     *)
(* normal name (at the start, after a kept "..", after the root) is kept, *)
(* and every other component is kept, in order.                           *)
C16_NormalizeCollapses ==
    ret.op = "normalize" =>
        LET res == ret.res.val
        IN /\ ret.res.ok
           /\ res = Collapse(ret.arg)
           /\ \A i \in Indexes(res) : res[i] # CurDir
           /\ \A i \in Indexes(res) :
                 res[i] = ParentDir => (i = 1 \/ res[i - 1] \in {RootDir, ParentDir})
           /\ (\A i \in Indexes(ret.arg) : ret.arg[i] = ParentDir) => res = ret.arg

(* C16: "/../a/..": the ".." after the root is kept, the one after a is   *)
(* struck out with it.                                                    *)
C16_Witness ==
    /\ ret.op = "normalize"
    /\ ret.arg = <<RootDir, ParentDir, n_a, ParentDir>>
    /\ ret.res.val = <<RootDir, ParentDir>>

(* An extra font path that is no font: it does not exist, cannot be read, *)
(* or is a file none of whose faces parses.                               *)
InvalidFontPath(p) ==
    \/ ~Exists(p)
    \/ ~Tree[p].open
    \/ Tree[p].kind = "file" /\ FontInfoIter(Tree[p].faces) = <<>>

(* C17: the search of an invalid extra font path adds no descriptor and   *)
(* no book entry and raises no error: it leaves the construction in the   *)
(* state it would be in had the path not been given, so the world built   *)
(* and the outcome of compile are the same as without the path.           *)
C17_InvalidPathIgnored ==
    [][(pc = "new" /\ stage = "extra" /\ font_paths # <<>>
          /\ InvalidFontPath(Head(font_paths))) =>
         /\ fonts' = fonts /\ book' = book
         /\ pc' = "new" /\ stage' = "extra" /\ out' = OutNone
         /\ font_paths' = Tail(font_paths)
         /\ UNCHANGED <<font_files, root, hashes, paths, sources, main, ret, out,
                        prev, cur, reads, hashed>>]_vars

(* C17: a missing path, a directory and a file that cannot be read and a  *)
(* file without a parseable face have been searched, and the catalog is   *)
(* the one of the system directories.                                     *)
C17_Witness ==
    /\ pc = "new" /\ stage = "extra"
    /\ font_paths = <<Append(XDir, n_f_ttf)>>
    /\ \E user \in {None, Some(HomeFontDir)} :
          /\ fonts = search_system(NewSearcher, user).fonts
          /\ book = search_system(NewSearcher, user).book

(* C18: in the states compile calls lead to, no two units of the registry *)
(* have the same file id; an insert into the registry appends one unit    *)
(* and leaves the units before it in place and as they were; and units    *)
(* leave the registry only in the reset at the start of a compile call,   *)
(* after which the registry holds the unit of that call's markup alone.   *)
C18_OneUnitPerId ==
    /\ [](\A i, j \in Indexes(sources) : sources[i].id = sources[j].id => i = j)
    /\ [](\A id \in Ids : Cardinality(Matches(id)) <= 1)
    /\ [](\A path \in InsertPaths \cup {MarkupPath}, text \in Markups :
            LET r == insert(sources, path, text)
            IN /\ Len(r.sources) = Len(sources) + 1
               /\ SubSeq(r.sources, 1, Len(sources)) = sources
               /\ Last(r.sources) = SourceNew(r.id, text)
               /\ r.id = FileIdNew(VirtualPathNew(path)))
    /\ [][sources' # sources =>
            /\ pc = "idle"
            /\ cur'.called
            /\ sources' = <<SourceNew(MarkupId, cur'.text)>>]_vars

(* C18: in a second compile call with another markup the lookup of the    *)
(* markup's id matched the one unit of the registry.                      *)
C18_Witness ==
    /\ prev.called /\ prev.text # cur.text
    /\ ret.op = "source" /\ ret.arg = MarkupId /\ ret.res.ok
    /\ Cardinality(Matches(MarkupId)) = 1
    /\ sources = <<SourceNew(MarkupId, cur.text)>>
    /\ ret.res.val = sources[1]

(* The number of records the file at the path yields: the faces that      *)
(* parse, when the path opens and maps; none otherwise.                   *)
RecordCount(p) ==
    IF Exists(p) /\ Tree[p].open /\ Tree[p].kind = "file"
    THEN Cardinality({i \in Indexes(Tree[p].faces) : Tree[p].faces[i] # BadFace})
    ELSE 0

(* C19: search_file on a file that yields k records appends k descriptors *)
(* to the catalog (and k entries to the book), all with the path of the   *)
(* file, with the collection indexes 0, 1, .., k - 1 in this order and an *)
(* empty cell; k is 0 for a path that does not open or map or that holds  *)
(* no face that parses, and no error is reported.                         *)
C19_SearchFileAppendsK ==
    [][(pc = "new" /\ stage = "extra" /\ font_paths = <<>> /\ font_files # <<>>) =>
         LET p == Head(font_files)
             k == RecordCount(p)
         IN /\ Len(fonts') = Len(fonts) + k
            /\ SubSeq(fonts', 1, Len(fonts)) = fonts
            /\ \A i \in 1..k : fonts'[Len(fonts) + i] = FontSlot(p, i - 1)
            /\ Len(book') = Len(book) + k
            /\ SubSeq(book', 1, Len(book)) = book
            /\ pc' = "new" /\ out' = OutNone
            /\ font_files' = Tail(font_files)]_vars

(* C19: the files e.ttc, a collection of two records, and a.TTC, three    *)
(* faces of which two parse, have been searched one after the other.      *)
C19_Witness ==
    /\ pc = "new" /\ stage = "extra" /\ font_paths = <<>> /\ font_files = <<>>
    /\ Len(fonts) >= 4
    /\ SubSeq(Desc(fonts), Len(fonts) - 3, Len(fonts)) =
          <<<<Append(YDir, n_e_ttc), 0>>, <<Append(YDir, n_e_ttc), 1>>,
            <<Append(SysDir1, n_a_TTC), 0>>, <<Append(SysDir1, n_a_TTC), 1>>>>

(* C19: a locked file, a directory, a file without a parseable face and a *)
(* missing path have been searched as font files and added nothing after  *)
(* the one record of e.txt.                                               *)
C19_WitnessNothing ==
    /\ pc = "new" /\ stage = "extra" /\ font_paths = <<>> /\ font_files = <<>>
    /\ fonts # <<>> /\ Last(fonts) = FontSlot(Append(XDir, n_e_txt), 0)

(* C20: from the moment compile hands the world to the compiler until it  *)
(* returns, the registry holds the unit of the markup alone, which is     *)
(* main, and both caches are empty; no call of an accessor changes the    *)
(* registry, main or a cache; and source and file fail with NotSource for *)
(* every id but the one of the markup, whether or not a file exists at    *)
(* the path of the id.                                                    *)
C20_AccessorsRegisterNothing ==
    /\ [](pc = "active" =>
            /\ sources = <<main>>
            /\ main = SourceNew(MarkupId, cur.text)
            /\ DOMAIN hashes = {}
            /\ DOMAIN paths = {})
    /\ []((pc = "active" /\ ret.op \in {"source", "file"}) =>
            IF ret.arg = main.id
            THEN ret.res.ok
            ELSE ~ret.res.ok /\ ret.res.err = "NotSource")
    /\ [][(pc = "active" /\ ret'.op \in {"library", "book", "main", "source",
                                           "file", "font"}) =>
             /\ sources' = sources /\ main' = main
             /\ hashes' = hashes /\ paths' = paths]_vars

(* C20: after fonts were decoded in this call, file was asked for the id  *)
(* of the path a, at which there is a file on disk, and failed.           *)
C20_Witness ==
    /\ pc = "active"
    /\ ret.op = "file" /\ ret.arg = OtherId
    /\ ret.arg.vpath = <<RootDir, n_a>> /\ HandleFromPath(<<n_a>>).ok
    /\ ~ret.res.ok /\ ret.res.err = "NotSource"
    /\ \E i \in Indexes(fonts) : fonts[i].font.some

=============================================================================
